---- MODULE Spec2Model ----
(***************************************************************************)
(* Model of dataset_v1/gpt_data_gen.py: the synthetic recommendation       *)
(* dataset generator (configuration tables, samplers, gen_user_row,        *)
(* build_header, main with its write phase and its column-count check).    *)
(*                                                                         *)
(* Conventions.                                                            *)
(*  - Python lists are sequences; Python index i is position i + 1.        *)
(*  - A Python dict is the sequence of its <<key, value>> pairs in         *)
(*    insertion order (the order dict iteration yields).                   *)
(*  - A probability or weight w is held as the integer 1000 * w; a list of *)
(*    floats with a common denominator is [num |-> <<...>>, den |-> d].    *)
(*  - A price or score rounded to 2 decimals is held in hundredths.        *)
(*  - The generator behind the random module is not part of the program.   *)
(*    It is a deterministic stream fixed by its seeding: a congruential    *)
(*    generator x' = (mult * x + inc) % Res whose parameters `gen` are     *)
(*    chosen once per behaviour; random() is x / Res.                      *)
(*  - A CSV line is the sequence of its fields, every field the string     *)
(*    csv.writer writes for it (no catalogue string holds a comma, a       *)
(*    quote or a line break, so the reader returns the same fields).       *)
(***************************************************************************)
EXTENDS Integers, Sequences, FiniteSets, TLC

\* ------------------------------------------------------------------------
\* Bounds of the model
\* ------------------------------------------------------------------------
\* number of distinct values random() can take (the resolution of the stream)
Res == 64
\* small increments of the generator family: 1..MaxInc
MaxInc == 3
\* row counts given on the command line: --rows \in 0..MaxRows
MaxRows == 2
\* gen_user_row called on its own: idx \in 1..MaxIdx, and idx within
\* IdSpread of 10^USER_ID_WIDTH, the first index with more digits
MaxIdx == 12
IdSpread == 3

\* ------------------------------------------------------------------------
\* 1. Configuration section
\* ------------------------------------------------------------------------
RECS_PER_USER == 10

AGE_BANDS ==
  << [band |-> "18-25", low |-> 18, high |-> 25, p |-> 250],
     [band |-> "26-35", low |-> 26, high |-> 35, p |-> 350],
     [band |-> "36-45", low |-> 36, high |-> 45, p |-> 250],
     [band |-> "46-60", low |-> 46, high |-> 60, p |-> 120],
     [band |-> "60+",   low |-> 61, high |-> 75, p |-> 30] >>

GENDERS == << <<"Male", 520>>, <<"Female", 480>> >>

TIERS ==
  << [tier |-> "Tier1",
      cities |-> <<"Mumbai", "Delhi", "Bangalore", "Hyderabad", "Chennai",
                   "Pune", "Kolkata", "Ahmedabad", "Surat", "Jaipur">>,
      states |-> <<"Maharashtra", "Delhi", "Karnataka", "Telangana", "Tamil Nadu",
                   "Maharashtra", "West Bengal", "Gujarat", "Gujarat", "Rajasthan">>,
      price_weights |-> <<200, 350, 280, 170>>],
     [tier |-> "Tier2",
      cities |-> <<"Lucknow", "Kanpur", "Nagpur", "Indore", "Bhopal",
                   "Visakhapatnam", "Patna", "Vadodara", "Coimbatore", "Agra">>,
      states |-> <<"Uttar Pradesh", "Uttar Pradesh", "Maharashtra", "Madhya Pradesh",
                   "Madhya Pradesh", "Andhra Pradesh", "Bihar", "Gujarat",
                   "Tamil Nadu", "Uttar Pradesh">>,
      price_weights |-> <<300, 400, 220, 80>>],
     [tier |-> "Tier3",
      cities |-> <<"Rajkot", "Meerut", "Nashik", "Faridabad", "Ghaziabad",
                   "Jabalpur", "Ranchi", "Mysore", "Jodhpur", "Kota">>,
      states |-> <<"Gujarat", "Uttar Pradesh", "Maharashtra", "Haryana",
                   "Uttar Pradesh", "Madhya Pradesh", "Jharkhand", "Karnataka",
                   "Rajasthan", "Rajasthan">>,
      price_weights |-> <<430, 420, 120, 30>>] >>

TIER_PROBS == <<400, 350, 250>>

PRICE_BUCKETS == <<"Budget", "Mid", "Premium", "Luxury">>

PRICE_RANGES ==
  ("Budget"  :> <<100, 1000>>)   @@ ("Mid"    :> <<1001, 5000>>) @@
  ("Premium" :> <<5001, 15000>>) @@ ("Luxury" :> <<15001, 60000>>)

CATEGORIES ==
  << [name |-> "Electronics",
      items  |-> <<"Smartphone", "Laptop", "Headphones", "Smart Watch", "Tablet", "Camera">>,
      brands |-> <<"Samsung", "Apple", "OnePlus", "Xiaomi", "Realme", "Vivo",
                   "HP", "Dell", "Lenovo", "Sony", "JBL", "Boat">>],
     [name |-> "Fashion",
      items  |-> <<"T-shirt", "Jeans", "Kurta", "Saree", "Dress", "Footwear", "Ethnic Wear">>,
      brands |-> <<"H&M", "Zara", "Nike", "Adidas", "Puma", "Fabindia", "W", "Biba",
                   "Allen Solly", "Van Heusen", "Levi's", "Pepe Jeans">>],
     [name |-> "Home",
      items  |-> <<"Furniture", "Kitchen Appliance", "Home Decor", "Bedding",
                   "Storage Solution">>,
      brands |-> <<"IKEA", "Godrej", "Whirlpool", "LG", "Prestige", "Pigeon",
                   "Home Centre", "Fabfurnish">>],
     [name |-> "Beauty",
      items  |-> <<"Skincare", "Makeup", "Haircare", "Perfume", "Grooming Product">>,
      brands |-> <<"Lakme", "Maybelline", "L'Oreal", "Nivea", "Dove", "Garnier",
                   "Biotique", "Mamaearth", "Nykaa", "Sugar Cosmetics">>],
     [name |-> "Books",
      items  |-> <<"Fiction Book", "Non-fiction Book", "Academic Book",
                   "Self-help Book", "Children's Book">>,
      brands |-> <<"Penguin", "Harper Collins", "Classmate", "Reynolds", "Parker">>],
     [name |-> "Sports",
      items  |-> <<"Gym Equipment", "Sportswear", "Outdoor Gear", "Yoga Accessory">>,
      brands |-> <<"Nike", "Adidas", "Puma", "Reebok", "Decathlon", "Nivia", "Cosco">>],
     [name |-> "Grocery",
      items  |-> <<"Snack", "Beverage", "Organic Product", "Staple">>,
      brands |-> <<"Britannia", "Parle", "Nestle", "Amul", "Tata", "ITC",
                   "Patanjali", "Organic India">>] >>

AGE_PREFS ==
  ("18-25" :> << <<"Electronics", 300>>, <<"Fashion", 400>>, <<"Beauty", 200>>,
                 <<"Books", 100>> >>) @@
  ("26-35" :> << <<"Electronics", 250>>, <<"Fashion", 300>>, <<"Home", 200>>,
                 <<"Sports", 150>>, <<"Beauty", 100>> >>) @@
  ("36-45" :> << <<"Home", 350>>, <<"Electronics", 200>>, <<"Fashion", 200>>,
                 <<"Grocery", 150>>, <<"Sports", 100>> >>) @@
  ("46-60" :> << <<"Home", 300>>, <<"Grocery", 250>>, <<"Electronics", 150>>,
                 <<"Fashion", 150>>, <<"Books", 150>> >>) @@
  ("60+"   :> << <<"Grocery", 400>>, <<"Home", 250>>, <<"Books", 200>>,
                 <<"Electronics", 100>>, <<"Beauty", 50>> >>)

GENDER_PREFS ==
  ("Male"   :> << <<"Electronics", 300>>, <<"Sports", 200>>, <<"Fashion", 250>>,
                  <<"Home", 150>>, <<"Books", 100>> >>) @@
  ("Female" :> << <<"Fashion", 350>>, <<"Beauty", 250>>, <<"Home", 200>>,
                  <<"Electronics", 100>>, <<"Books", 100>> >>)

\* the smoothing term 0.001 of combined_category_weights
SMOOTHING == 1

\* ------------------------------------------------------------------------
\* Sequences, dicts, numbers and their text
\* ------------------------------------------------------------------------
Range(s) == {s[i] : i \in DOMAIN s}

Keys(d) == [i \in DOMAIN d |-> d[i][1]]

Values(d) == [i \in DOMAIN d |-> d[i][2]]

\* s[1] + ... + s[k]
RECURSIVE SumTo(_, _)
SumTo(s, k) == IF k = 0 THEN 0 ELSE s[k] + SumTo(s, k - 1)

Sum(s) == SumTo(s, Len(s))

\* d[key] of a dict that holds key
Get(d, key) == d[CHOOSE i \in DOMAIN d : d[i][1] = key][2]

\* the defaultdict(float) left by `weights[cat] += w` for every <<cat, w>>
\* of updates, in order: a key is inserted when first met and keeps its
\* position, its value is the sum of the weights added to it
Accumulate(updates) ==
  LET dict(u) ==
        LET firsts == SelectSeq([i \in DOMAIN u |-> i],
                                LAMBDA i : \A j \in 1 .. i - 1 : u[j][1] # u[i][1])
            added(cat) == SelectSeq(u, LAMBDA e : e[1] = cat)
        IN  [k \in DOMAIN firsts |->
               <<u[firsts[k]][1], Sum(Values(added(u[firsts[k]][1])))>>]
  IN  CHOOSE d \in {dict(u) : u \in {updates}} : TRUE

Digits == <<"0", "1", "2", "3", "4", "5", "6", "7", "8", "9">>

RECURSIVE Pow10(_)
Pow10(k) == IF k = 0 THEN 1 ELSE 10 * Pow10(k - 1)

\* str(n) of an int n >= 0
RECURSIVE DecStr(_)
DecStr(n) == IF n < 10 THEN Digits[n + 1]
             ELSE DecStr(n \div 10) \o Digits[(n % 10) + 1]

\* the fill of the format spec 0<width>d: zeros up to a minimum width
RECURSIVE ZeroPad(_, _)
ZeroPad(s, width) == IF Len(s) >= width THEN s ELSE ZeroPad("0" \o s, width)

\* str(x) of a float x = h / 100 that round(.., 2) returned: the shortest
\* decimal text, at least one digit after the point
FloatStr(h) ==
  DecStr(h \div 100) \o "." \o
    (IF h % 10 = 0 THEN DecStr((h % 100) \div 10) ELSE ZeroPad(DecStr(h % 100), 2))

\* a / b rounded to the nearest integer, ties to even (round)
RoundDiv(a, b) ==
  LET q == a \div b
      r == a % b
  IN  IF 2 * r < b THEN q
      ELSE IF 2 * r > b THEN q + 1
      ELSE q + (q % 2)

\* ------------------------------------------------------------------------
\* State
\* ------------------------------------------------------------------------
VARIABLES
  gen,            \* the generator's parameters [key, mult, inc], fixed per behaviour
  rows,           \* args.rows, the same command line for every run
  clock,          \* clock[r]: the wall-clock time at which run r starts
  pc,             \* pc[r]: where run r stands
  rng,            \* rng[r]: the state of run r's generator
  idx,            \* idx[r]: the row index of the for loop / the argument of gen_user_row
  file,           \* file[r]: the lines of run r's output file
  wfh,            \* wfh[r]: the handle opened for writing: "none", "open", "closed"
  rfh,            \* rfh[r]: the handle opened for reading: "none", "open", "closed"
  user,           \* user[r]: gen_user_row's locals up to the sampling loop
  seen_products,  \* seen_products[r]
  rec_flat,       \* rec_flat[r]
  row,            \* row[r]: the list gen_user_row returned last
  first_row,      \* first_row[r]: the first data row the check read back
  exit_code,      \* exit_code[r]: -1 while running, then the process's exit status
  exc             \* exc[r]: "" or the exception that ended the run

vars == <<gen, rows, clock, pc, rng, idx, file, wfh, rfh, user, seen_products,
          rec_flat, row, first_row, exit_code, exc>>

\* ------------------------------------------------------------------------
\* The random module
\* ------------------------------------------------------------------------
Multipliers == {1, 5}

\* increments of full period and one of period 2
Increments == (1 .. MaxInc) \cup {Res \div 2}

Generators == [key : 0 .. Res - 1, mult : Multipliers, inc : Increments]

\* random.seed(a): the state the generator starts from is a function of a
SeedState(a) == (gen.key + a) % Res

\* the state after one draw
Advance(x) == (gen.mult * x + gen.inc) % Res

\* the state after k draws
RECURSIVE AdvanceBy(_, _)
AdvanceBy(x, k) == IF k = 0 THEN x ELSE AdvanceBy(Advance(x), k - 1)

\* _randbelow(n): a uniform index below n, taken from the draw x as
\* floor(n * x / Res); it counts as one draw
randbelow(n, x) == (x * n) \div Res

\* random.randint(a, b): a + _randbelow(b - a + 1), both ends included
randint(a, b, x) == a + randbelow(b - a + 1, x)

\* random.choice(seq): seq[_randbelow(len(seq))]
choice(seq, x) == seq[randbelow(Len(seq), x) + 1]

\* random.choices(population, weights)[0]:
\* population[bisect(cum_weights, random() * total, 0, n - 1)]
choices(population, weights, x) ==
  LET n == Len(population)
      right == {i \in 1 .. n - 1 : SumTo(weights, i) * Res > x * SumTo(weights, n)}
  IN  population[IF right = {} THEN n ELSE CHOOSE i \in right : \A j \in right : i <= j]

\* round(random.uniform(a, b), 2) in hundredths, a and b given in hundredths:
\* a + (b - a) * random()
uniform(a, b, x) == RoundDiv(a * Res + (b - a) * x, Res)

\* ------------------------------------------------------------------------
\* 2. Helper functions.  Each takes the generator state x it starts from
\*    and returns its result with the state it leaves behind.  (The
\*    actions bind each result with \E v \in {..}, which evaluates it once.)
\* ------------------------------------------------------------------------
\* variant: the age is drawn from one fixed range, whatever the band
choose_age_band_any_range(x) ==
  LET b == choices(AGE_BANDS, [i \in DOMAIN AGE_BANDS |-> AGE_BANDS[i].p], x)
  IN  [band |-> b.band, age |-> randint(18, 60, Advance(x)),
       rng |-> AdvanceBy(x, 2)]

choose_age_band(x) ==
  LET b == choices(AGE_BANDS, [i \in DOMAIN AGE_BANDS |-> AGE_BANDS[i].p], x)
  IN  [band |-> b.band, age |-> randint(b.low, b.high, Advance(x)),
       rng |-> AdvanceBy(x, 2)]

choose_gender(x) ==
  [gender |-> choices(Keys(GENDERS), Values(GENDERS), x), rng |-> Advance(x)]

\* variant: the state is picked with a draw of its own
choose_tier_city_state_unpaired(x) ==
  LET t == choices(TIERS, TIER_PROBS, x)
      i == randint(0, 9, Advance(x))
      j == randint(0, 9, AdvanceBy(x, 2))
  IN  [tier |-> t.tier, city |-> t.cities[i + 1], state |-> t.states[j + 1],
       idx |-> i, rng |-> AdvanceBy(x, 3)]

choose_tier_city_state(x) ==
  LET t == choices(TIERS, TIER_PROBS, x)
      i == randint(0, 9, Advance(x))
  IN  [tier |-> t.tier, city |-> t.cities[i + 1], state |-> t.states[i + 1],
       idx |-> i, rng |-> AdvanceBy(x, 2)]

TierOf(name) == CHOOSE t \in Range(TIERS) : t.tier = name

CategoryOf(name) == CHOOSE c \in Range(CATEGORIES) : c.name = name

choose_price(tier, x) ==
  LET bucket == choices(PRICE_BUCKETS, TierOf(tier).price_weights, x)
      low  == PRICE_RANGES[bucket][1]
      high == PRICE_RANGES[bucket][2]
  IN  [price |-> uniform(100 * low, 100 * high, Advance(x)), rng |-> AdvanceBy(x, 2)]

\* for cat in CATEGORIES: weights[cat] += 0.001
Smoothing == [i \in DOMAIN CATEGORIES |-> <<CATEGORIES[i].name, SMOOTHING>>]

\* variant: the smoothing loop is left out
combined_category_weights_unsmoothed(age_band, gender) ==
  LET weights == Accumulate(AGE_PREFS[age_band] \o GENDER_PREFS[gender])
      wts == Values(weights)
      total == Sum(wts)
  IN  [cats |-> Keys(weights), weights |-> [num |-> wts, den |-> total]]

combined_category_weights(age_band, gender) ==
  LET weights == Accumulate(AGE_PREFS[age_band] \o GENDER_PREFS[gender] \o Smoothing)
      wts == Values(weights)
      total == Sum(wts)
  IN  [cats |-> Keys(weights), weights |-> [num |-> wts, den |-> total]]

\* the width of the format spec 06d
USER_ID_WIDTH == 6

\* f"USER_{idx:06d}"
user_id_of(i) == "USER_" \o ZeroPad(DecStr(i), USER_ID_WIDTH)

\* f"{brand} {item}"
product_name_of(brand, item) == brand \o " " \o item

\* variant: range(1, RECS_PER_USER), one block short
build_header_short ==
  LET fields == <<"product", "category", "brand", "price", "recommendation_score">>
      block(i) == [k \in DOMAIN fields |-> fields[k] \o "_" \o DecStr(i)]
      RECURSIVE hdr(_)
      hdr(i) == IF i = 0 THEN <<"user_id", "age", "gender", "state", "city", "tier">>
                ELSE hdr(i - 1) \o block(i)
  IN  hdr(RECS_PER_USER - 1)

build_header ==
  LET fields == <<"product", "category", "brand", "price", "recommendation_score">>
      block(i) == [k \in DOMAIN fields |-> fields[k] \o "_" \o DecStr(i)]
      RECURSIVE hdr(_)
      hdr(i) == IF i = 0 THEN <<"user_id", "age", "gender", "state", "city", "tier">>
                ELSE hdr(i - 1) \o block(i)
  IN  hdr(RECS_PER_USER)

\* the fields csv.writer writes for a row of gen_user_row: str of every
\* value (age is an int, price and score are floats, the rest are strings)
writerow(r) ==
  [k \in DOMAIN r |->
     IF k = 2 THEN DecStr(r[k])
     ELSE IF k > 6 /\ (k - 6) % 5 \in {4, 0} THEN FloatStr(r[k])
     ELSE r[k]]

\* ------------------------------------------------------------------------
\* 3. Generation core: gen_user_row(idx), one action per step
\* ------------------------------------------------------------------------
NoUser ==
  [user_id |-> "", age_band |-> "", age |-> 0, gender |-> "", tier |-> "",
   city |-> "", state |-> "", city_idx |-> 0, cats |-> <<>>,
   weights |-> [num |-> <<>>, den |-> 1]]

\* gen_user_row up to the sampling loop: the user's attributes, the
\* category weights, the empty seen_products and rec_flat
GenBegin(r) ==
  /\ pc[r] = "gen"
  /\ \E a \in {choose_age_band(rng[r])} :
     \E g \in {choose_gender(a.rng)} :
     \E t \in {choose_tier_city_state(g.rng)} :
     \E w \in {combined_category_weights(a.band, g.gender)} :
       /\ user' = [user EXCEPT ![r] =
                     [user_id |-> user_id_of(idx[r]), age_band |-> a.band,
                      age |-> a.age, gender |-> g.gender, tier |-> t.tier,
                      city |-> t.city, state |-> t.state, city_idx |-> t.idx,
                      cats |-> w.cats, weights |-> w.weights]]
       /\ rng' = [rng EXCEPT ![r] = t.rng]
  /\ seen_products' = [seen_products EXCEPT ![r] = {}]
  /\ rec_flat' = [rec_flat EXCEPT ![r] = <<>>]
  /\ pc' = [pc EXCEPT ![r] = "sample"]
  /\ UNCHANGED <<gen, rows, clock, idx, file, wfh, rfh, row, first_row, exit_code, exc>>

\* the loop condition: len(seen_products) < RECS_PER_USER
more_wanted(seen) == Cardinality(seen) < RECS_PER_USER

\* the three draws that open an iteration: category, item, brand
Candidate(r) ==
  LET category == choices(user[r].cats, user[r].weights.num, rng[r])
      c == CategoryOf(category)
      item  == choice(c.items, Advance(rng[r]))
      brand == choice(c.brands, AdvanceBy(rng[r], 2))
  IN  [category |-> category, item |-> item, brand |-> brand,
       product_name |-> product_name_of(brand, item), rng |-> AdvanceBy(rng[r], 3)]

\* variant: the uniqueness test is left out
already_seen_never(product_name, seen) == FALSE

\* product_name in seen_products
already_seen(product_name, seen) == product_name \in seen

\* one iteration of the while loop
SampleRec(r) ==
  /\ pc[r] = "sample"
  /\ more_wanted(seen_products[r])
  /\ \E d \in {Candidate(r)} :
       IF already_seen(d.product_name, seen_products[r])
         THEN \* continue
              /\ rng' = [rng EXCEPT ![r] = d.rng]
              /\ UNCHANGED <<seen_products, rec_flat>>
         ELSE \E p \in {choose_price(user[r].tier, d.rng)} :
              \E score \in {uniform(10, 100, p.rng)} :
                /\ seen_products' =
                     [seen_products EXCEPT ![r] = @ \cup {d.product_name}]
                /\ rec_flat' =
                     [rec_flat EXCEPT ![r] =
                        @ \o <<d.product_name, d.category, d.brand, p.price, score>>]
                /\ rng' = [rng EXCEPT ![r] = Advance(p.rng)]
  /\ UNCHANGED <<gen, rows, clock, pc, idx, file, wfh, rfh, user, row, first_row,
                 exit_code, exc>>

\* the loop ends and the row is returned; the locals are gone
GenReturn(r) ==
  /\ pc[r] = "sample"
  /\ ~more_wanted(seen_products[r])
  /\ row' = [row EXCEPT ![r] =
               <<user[r].user_id, user[r].age, user[r].gender, user[r].state,
                 user[r].city, user[r].tier>> \o rec_flat[r]]
  /\ user' = [user EXCEPT ![r] = NoUser]
  /\ seen_products' = [seen_products EXCEPT ![r] = {}]
  /\ rec_flat' = [rec_flat EXCEPT ![r] = <<>>]
  /\ pc' = [pc EXCEPT ![r] = "ret"]
  /\ UNCHANGED <<gen, rows, clock, rng, idx, file, wfh, rfh, first_row, exit_code, exc>>

\* ------------------------------------------------------------------------
\* 4. main
\* ------------------------------------------------------------------------
\* variant: the generator is seeded from the wall clock
seed_arg_clock(now) == now

\* the argument of random.seed; `now` is the wall clock, which it ignores
seed_arg(now) == 42

\* random.seed(42); start = time.time()
MainSeed(r) ==
  /\ pc[r] = "start"
  /\ rng' = [rng EXCEPT ![r] = SeedState(seed_arg(clock[r]))]
  /\ pc' = [pc EXCEPT ![r] = "open"]
  /\ UNCHANGED <<gen, rows, clock, idx, file, wfh, rfh, user, seen_products,
                 rec_flat, row, first_row, exit_code, exc>>

\* with args.out.open("w", ...) as fh: the file is created or truncated
OpenWrite(r) ==
  /\ pc[r] = "open"
  /\ wfh' = [wfh EXCEPT ![r] = "open"]
  /\ file' = [file EXCEPT ![r] = <<>>]
  /\ pc' = [pc EXCEPT ![r] = "header"]
  /\ UNCHANGED <<gen, rows, clock, rng, idx, rfh, user, seen_products, rec_flat,
                 row, first_row, exit_code, exc>>

\* writer.writerow(build_header()); the for loop starts at idx = 1
WriteHeader(r) ==
  /\ pc[r] = "header"
  /\ file' = [file EXCEPT ![r] = Append(@, build_header)]
  /\ idx' = [idx EXCEPT ![r] = 1]
  /\ pc' = [pc EXCEPT ![r] = "loop"]
  /\ UNCHANGED <<gen, rows, clock, rng, wfh, rfh, user, seen_products, rec_flat,
                 row, first_row, exit_code, exc>>

\* for idx in range(1, args.rows + 1): the call gen_user_row(idx)
ForCall(r) ==
  /\ pc[r] = "loop"
  /\ idx[r] <= rows
  /\ pc' = [pc EXCEPT ![r] = "gen"]
  /\ UNCHANGED <<gen, rows, clock, rng, idx, file, wfh, rfh, user, seen_products,
                 rec_flat, row, first_row, exit_code, exc>>

\* writer.writerow(<the row returned>), then the next idx
WriteRow(r) ==
  /\ pc[r] = "ret"
  /\ file' = [file EXCEPT ![r] = Append(@, writerow(row[r]))]
  /\ idx' = [idx EXCEPT ![r] = @ + 1]
  /\ pc' = [pc EXCEPT ![r] = "loop"]
  /\ UNCHANGED <<gen, rows, clock, rng, wfh, rfh, user, seen_products, rec_flat,
                 row, first_row, exit_code, exc>>

\* the range is exhausted: the with block ends and closes fh
CloseWrite(r) ==
  /\ pc[r] = "loop"
  /\ idx[r] > rows
  /\ wfh' = [wfh EXCEPT ![r] = "closed"]
  /\ pc' = [pc EXCEPT ![r] = "verify"]
  /\ UNCHANGED <<gen, rows, clock, rng, idx, file, rfh, user, seen_products,
                 rec_flat, row, first_row, exit_code, exc>>

\* expected_cols = len(build_header())
expected_cols == Len(build_header)

\* with args.out.open(encoding="utf-8") as fh: reader = csv.reader(fh)
OpenRead(r) ==
  /\ pc[r] = "verify"
  /\ rfh' = [rfh EXCEPT ![r] = "open"]
  /\ pc' = [pc EXCEPT ![r] = "skip"]
  /\ UNCHANGED <<gen, rows, clock, rng, idx, file, wfh, user, seen_products,
                 rec_flat, row, first_row, exit_code, exc>>

\* variant: the handle is opened without a with block, so an exception
\* ends the process with fh still open
Raise_leaking(r, e) ==
  /\ UNCHANGED rfh
  /\ exc' = [exc EXCEPT ![r] = e]
  /\ exit_code' = [exit_code EXCEPT ![r] = 1]
  /\ pc' = [pc EXCEPT ![r] = "done"]

\* an exception leaves the with block, which closes fh, and ends the
\* process with a traceback and status 1
Raise(r, e) ==
  /\ rfh' = [rfh EXCEPT ![r] = "closed"]
  /\ exc' = [exc EXCEPT ![r] = e]
  /\ exit_code' = [exit_code EXCEPT ![r] = 1]
  /\ pc' = [pc EXCEPT ![r] = "done"]

\* next(reader): skip header
SkipHeader(r) ==
  /\ pc[r] = "skip"
  /\ IF Len(file[r]) < 1
       THEN Raise(r, "StopIteration")
       ELSE /\ pc' = [pc EXCEPT ![r] = "first"]
            /\ UNCHANGED <<rfh, exit_code, exc>>
  /\ UNCHANGED <<gen, rows, clock, rng, idx, file, wfh, user, seen_products,
                 rec_flat, row, first_row>>

\* first_row = next(reader)
ReadFirstRow(r) ==
  /\ pc[r] = "first"
  /\ IF Len(file[r]) < 2
       THEN Raise(r, "StopIteration") /\ UNCHANGED first_row
       ELSE /\ first_row' = [first_row EXCEPT ![r] = file[r][2]]
            /\ pc' = [pc EXCEPT ![r] = "check"]
            /\ UNCHANGED <<rfh, exit_code, exc>>
  /\ UNCHANGED <<gen, rows, clock, rng, idx, file, wfh, user, seen_products,
                 rec_flat, row>>

\* if len(first_row) != expected_cols: sys.exit("ERROR: ...");
\* otherwise the with block and main end, status 0
CheckCols(r) ==
  /\ pc[r] = "check"
  /\ IF Len(first_row[r]) # expected_cols
       THEN Raise(r, "SystemExit")
       ELSE /\ rfh' = [rfh EXCEPT ![r] = "closed"]
            /\ exit_code' = [exit_code EXCEPT ![r] = 0]
            /\ pc' = [pc EXCEPT ![r] = "done"]
            /\ UNCHANGED exc
  /\ UNCHANGED <<gen, rows, clock, rng, idx, file, wfh, user, seen_products,
                 rec_flat, row, first_row>>

\* ------------------------------------------------------------------------
\* Specifications
\* ------------------------------------------------------------------------
\* the runs of main started on the same command line, run r at time r
Start(runs, at) ==
  /\ gen \in Generators
  /\ rows \in 0 .. MaxRows
  /\ clock = [r \in runs |-> r]
  /\ pc = [r \in runs |-> at]
  /\ rng = [r \in runs |-> 0]
  /\ idx = [r \in runs |-> 0]
  /\ file = [r \in runs |-> <<>>]
  /\ wfh = [r \in runs |-> "none"]
  /\ rfh = [r \in runs |-> "none"]
  /\ user = [r \in runs |-> NoUser]
  /\ seen_products = [r \in runs |-> {}]
  /\ rec_flat = [r \in runs |-> <<>>]
  /\ row = [r \in runs |-> <<>>]
  /\ first_row = [r \in runs |-> <<>>]
  /\ exit_code = [r \in runs |-> -1]
  /\ exc = [r \in runs |-> ""]

Step(r) ==
  \/ MainSeed(r)
  \/ OpenWrite(r)
  \/ WriteHeader(r)
  \/ ForCall(r)
  \/ GenBegin(r)
  \/ SampleRec(r)
  \/ GenReturn(r)
  \/ WriteRow(r)
  \/ CloseWrite(r)
  \/ OpenRead(r)
  \/ SkipHeader(r)
  \/ ReadFirstRow(r)
  \/ CheckCols(r)

\* one run of main
Init == Start({1}, "start")

Next == Step(1)

Spec == Init /\ [][Next]_vars

\* one run of main that keeps stepping while it can, under the generators
\* of multiplier 1 and an increment of at least MaxInc
InitFair == Init /\ gen.mult = 1 /\ gen.inc >= MaxInc

FairSpec == InitFair /\ [][Next]_vars /\ WF_vars(Next)

\* two runs of main on the same command line, stepped side by side, under
\* the generators of multiplier 1 and increment MaxInc
InitPair == Start({1, 2}, "start") /\ gen.inc = MaxInc /\ gen.mult = 1

NextPair == \E r \in {1, 2} : Step(r)

SpecPair == InitPair /\ [][NextPair]_vars

\* gen_user_row(idx) called on its own, from any state of the generator
IdxInputs ==
  (1 .. MaxIdx) \cup
  {Pow10(USER_ID_WIDTH) - IdSpread + i : i \in 0 .. 2 * IdSpread}

InitRow ==
  /\ gen \in {g \in Generators : g.key = 0}
  /\ rows = 0
  /\ clock = [r \in {1} |-> r]
  /\ pc = [r \in {1} |-> "gen"]
  /\ rng \in [{1} -> 0 .. Res - 1]
  /\ idx \in [{1} -> IdxInputs]
  /\ file = [r \in {1} |-> <<>>]
  /\ wfh = [r \in {1} |-> "none"]
  /\ rfh = [r \in {1} |-> "none"]
  /\ user = [r \in {1} |-> NoUser]
  /\ seen_products = [r \in {1} |-> {}]
  /\ rec_flat = [r \in {1} |-> <<>>]
  /\ row = [r \in {1} |-> <<>>]
  /\ first_row = [r \in {1} |-> <<>>]
  /\ exit_code = [r \in {1} |-> -1]
  /\ exc = [r \in {1} |-> ""]

NextRow == GenBegin(1) \/ SampleRec(1) \/ GenReturn(1)

SpecRow == InitRow /\ [][NextRow]_vars

\* ------------------------------------------------------------------------
\* Properties
\* ------------------------------------------------------------------------
Runs == DOMAIN pc

\* the product_name fields of a row
ProductNames(rw) == [k \in 1 .. (Len(rw) - 6) \div 5 |-> rw[6 + 5 * (k - 1) + 1]]

Distinct(s) == \A i, j \in DOMAIN s : i # j => s[i] # s[j]

RowHasUniqueRecs(rw) ==
  /\ Len(rw) = 6 + 5 * RECS_PER_USER
  /\ Distinct(ProductNames(rw))

ReturnedRowsUnique ==
  \A r \in Runs :
    /\ pc[r] = "ret" => RowHasUniqueRecs(row[r])
    /\ \A k \in 2 .. Len(file[r]) : RowHasUniqueRecs(file[r][k])

DuplicateDrawAddsNothing ==
  \A r \in Runs :
    (/\ pc[r] = "sample"
     /\ more_wanted(seen_products[r])
     /\ Candidate(r).product_name \in seen_products[r])
    => /\ rec_flat'[r] = rec_flat[r]
       /\ seen_products'[r] = seen_products[r]

\* C1: every row gen_user_row returns (and so every data row written) has
\* exactly RECS_PER_USER recommendation blocks whose product names are
\* pairwise distinct, and an iteration that draws a product name already in
\* seen_products leaves seen_products and rec_flat as they were.
C1_UniqueRecommendations ==
  []ReturnedRowsUnique /\ [][DuplicateDrawAddsNothing]_vars

\* a second row has been returned by gen_user_row
C1_Witness == pc[1] = "ret" /\ idx[1] = 2 /\ Len(row[1]) > 6

\* C2: once the write handle is closed the file holds rows + 1 lines, the
\* first is the header, and the header and every data row have
\* 6 + 5 * RECS_PER_USER fields (rows = 0: the header alone).
C2_RowAndColumnCount ==
  \A r \in Runs :
    wfh[r] = "closed" =>
      /\ Len(file[r]) = rows + 1
      /\ file[r][1] = build_header
      /\ \A k \in 1 .. Len(file[r]) : Len(file[r][k]) = 6 + 5 * RECS_PER_USER
      /\ rows = 0 => file[r] = <<build_header>>

\* the write phase has ended on a file with data rows
C2_Witness == wfh[1] = "closed" /\ Len(file[1]) > 1

\* C3: a finished run has exit code 0, or a non-zero exit code that comes
\* from the column-count check finding the first data row's field count
\* different from the expected one.
C3_ExitCodes ==
  \A r \in Runs :
    pc[r] = "done" =>
      \/ exit_code[r] = 0 /\ exc[r] = ""
      \/ /\ exit_code[r] # 0
         /\ exc[r] = "SystemExit"
         /\ Len(first_row[r]) # expected_cols

Min(a, b) == IF a <= b THEN a ELSE b

\* C5: two runs on the same command line and the same seeded stream write
\* the same lines in the same order: at every moment the two files agree
\* on every line both hold, and two finished runs leave identical files
\* and the same exit code.
C5_Determinism ==
  /\ \A k \in 1 .. Min(Len(file[1]), Len(file[2])) : file[1][k] = file[2][k]
  /\ (pc[1] = "done" /\ pc[2] = "done") =>
       /\ file[1] = file[2]
       /\ exit_code[1] = exit_code[2]

\* both runs have finished a file with data rows
C5_Witness ==
  /\ pc[1] = "done" /\ pc[2] = "done"
  /\ Len(file[1]) > 1 /\ Len(file[2]) > 1

\* C6: the user_id of the row gen_user_row(idx) returns is USER_ followed by
\* exactly USER_ID_WIDTH digits.
C6_UserIdFixedWidth ==
  \A r \in Runs :
    pc[r] = "ret" => Len(row[r][1]) = Len("USER_") + USER_ID_WIDTH

BandOf(name) == CHOOSE b \in Range(AGE_BANDS) : b.band = name

\* C7: the age drawn lies in the inclusive range AGE_BANDS gives for the
\* band drawn with it, that band is the one the category weights were
\* looked up with, and every age lies in 18..75.
C7_AgeWithinBand ==
  \A r \in Runs :
    /\ pc[r] = "sample" =>
         /\ \E b \in Range(AGE_BANDS) : b.band = user[r].age_band
         /\ BandOf(user[r].age_band).low <= user[r].age
         /\ user[r].age <= BandOf(user[r].age_band).high
         /\ user[r].age \in 18 .. 75
         /\ user[r].cats = combined_category_weights(user[r].age_band, user[r].gender).cats
         /\ user[r].weights =
              combined_category_weights(user[r].age_band, user[r].gender).weights
    /\ pc[r] = "ret" => row[r][2] \in 18 .. 75

\* a user of the oldest band has been drawn
C7_Witness == pc[1] = "sample" /\ user[1].age_band = "60+" /\ user[1].age > 61

\* C8: the index drawn is a valid index of the chosen tier's cities and
\* states, and city and state are the entries of that tier at that index.
C8_CityStatePaired ==
  \A r \in Runs :
    /\ pc[r] = "sample" =>
         LET t == TierOf(user[r].tier)
             i == user[r].city_idx
         IN  /\ \E u \in Range(TIERS) : u.tier = user[r].tier
             /\ i \in 0 .. Len(t.cities) - 1
             /\ i \in 0 .. Len(t.states) - 1
             /\ user[r].city = t.cities[i + 1]
             /\ user[r].state = t.states[i + 1]
    /\ pc[r] = "ret" =>
         \E t \in Range(TIERS) :
           /\ t.tier = row[r][6]
           /\ \E i \in DOMAIN t.cities : row[r][5] = t.cities[i] /\ row[r][4] = t.states[i]

\* a user of the last tier at the last index has been drawn
C8_Witness == pc[1] = "sample" /\ user[1].tier = "Tier3" /\ user[1].city_idx = 9

PrefOf(prefs, cat) ==
  IF \E i \in DOMAIN prefs : prefs[i][1] = cat THEN Get(prefs, cat) ELSE 0

\* C9: the category list holds every category of CATEGORIES exactly once,
\* the weight list has the same length, every weight is the age weight plus
\* the gender weight plus the smoothing term over the total and is strictly
\* positive, and the weights sum to 1.
C9_CombinedWeights ==
  \A r \in Runs :
    pc[r] = "sample" =>
      LET cats == user[r].cats
          w == user[r].weights
      IN  /\ Len(cats) = Len(CATEGORIES)
          /\ Range(cats) = {c.name : c \in Range(CATEGORIES)}
          /\ Len(w.num) = Len(cats)
          /\ \A i \in DOMAIN cats :
               /\ w.num[i] = PrefOf(AGE_PREFS[user[r].age_band], cats[i])
                             + PrefOf(GENDER_PREFS[user[r].gender], cats[i])
                             + SMOOTHING
               /\ w.num[i] > 0
          /\ w.den > 0
          /\ Sum(w.num) = w.den

\* weights have been combined for a user whose tables both lack a category
C9_Witness ==
  /\ pc[1] = "sample"
  /\ \E i \in DOMAIN user[1].cats : user[1].weights.num[i] = SMOOTHING

\* C10: the write handle is closed before the file is opened for reading,
\* and a finished run has no handle open, whichever way it ended.
C10_HandlesClosed ==
  \A r \in Runs :
    /\ rfh[r] = "open" => wfh[r] = "closed"
    /\ pc[r] = "done" => wfh[r] = "closed" /\ rfh[r] = "closed"

\* a run has been ended by an error raised while reading the file back
C10_Witness == pc[1] = "done" /\ exc[1] = "StopIteration"

====
